---- MODULE Spec2Model ----
(***************************************************************************)
(* Model of app.py, the Streamlit churn dashboard: the memoized loader     *)
(* load_data (lines 21-49), the script's metrics and grouped summaries     *)
(* (lines 51-60, 116-123, 152, 162, 182, 205), and the filter predicate of *)
(* the specification's Aggregator (section 4.2 and section 6).             *)
(*                                                                         *)
(* Numbers are exact rationals n/d; NaN is the missing marker of pandas.   *)
(* Recency and TotalPrice are whole numbers in the inputs explored.        *)
(* The columns UnitPrice and Quantity (and Credit_Score, derived from      *)
(* Quantity) are read by no statement below and are left out of the row.   *)
(***************************************************************************)
EXTENDS Integers, Sequences, FiniteSets, TLC

VARIABLES
    source,    \* churn_results.csv: [ver, rows], rows the raw records
    cache,     \* st.cache_data's memo of load_data(): [hit, value], and the
               \* source version it was computed from (ver)
    df,        \* the script's global df of the latest run
    status,    \* "init" before the first run, then "ok" or "error"
    page,      \* the script's computed globals of the latest run
    loads,     \* how many times the body of load_data has executed
    seen,      \* source.ver as it was when the latest run started
    observed,  \* the groupby default `observed` of the installed pandas
    sel,       \* the three filter facets supplied by the presentation
    view,      \* the filtered table
    summary    \* scalarSummary of the filtered table

vars == <<source, cache, df, status, page, loads, seen, observed, sel, view, summary>>

(***************************** bounds ***************************************)
MaxRows == 3
MaxRecency == 311
MaxFilterRows == 2
MaxSessionRows == 1
MaxVersion == 2
MaxLoads == 3

(***************************** values ***************************************)
NaN == [nan |-> TRUE, n |-> 0, d |-> 1]
Num(v) == [nan |-> FALSE, n |-> v, d |-> 1]
Frac(n, d) == [nan |-> FALSE, n |-> n, d |-> d]
NA == "<NA>"

\* numpy true division of two integers; 0/0 is nan (a RuntimeWarning, no raise).
\* The only zero divisor the script meets is the row count of an empty table,
\* whose sum is 0 as well.
Div(a, b) == IF b = 0 THEN NaN ELSE Frac(a, b)
Times(x, k) == IF x.nan THEN NaN ELSE Frac(x.n * k, x.d)
Less(x, y) == x.n * y.d < y.n * x.d
Same(x, y) == x.n * y.d = y.n * x.d

RECURSIVE SumSeq(_)
SumSeq(s) == IF s = <<>> THEN 0 ELSE Head(s) + SumSeq(Tail(s))


\* Series.mean(): skips NaN; NaN when nothing is left.
mean(s) ==
    LET xs == SelectSeq(s, LAMBDA x : ~x.nan)
    IN  IF xs = <<>> THEN NaN
        ELSE Div(SumSeq([i \in 1..Len(xs) |-> xs[i].n]), Len(xs))

(***************************** raw cells ************************************)
RawNum(v) == [kind |-> "num", v |-> v]
Blank == [kind |-> "blank", v |-> 0]
Text == [kind |-> "text", v |-> 0]

RawRow(id, country, price, recency, churn, pc) ==
    [CustomerID |-> id, Country |-> country, TotalPrice |-> price,
     Recency |-> recency, Churn |-> churn, Predicted_Churn |-> pc]

\* pd.to_numeric(col, errors='coerce')
to_numeric(c) == IF c.kind = "num" THEN Num(c.v) ELSE NaN

(***************************** load_data ************************************)
age_labels == <<"18-30", "31-40", "41-50", "51-60", "61-70", ">71">>
income_labels == <<"Low Income", "Lower Middle", "Middle", "Upper Middle", "High Income">>

age_bins(max_recency) == <<0, 60, 120, 180, 240, 300, max_recency + 1>>

\* pd.cut rejects bins that do not increase, and duplicate edges.
BinsIncrease(bins) == \A i \in 1..(Len(bins) - 1) : bins[i] < bins[i + 1]

searchsorted(bins, x, side) ==
    IF side = "left" THEN Cardinality({i \in 1..Len(bins) : bins[i] < x})
    ELSE Cardinality({i \in 1..Len(bins) : bins[i] <= x})

\* pd.cut(x, bins=bins, labels=labels, include_lowest=True, right=False)
cut_right_false(x, bins, labels) ==
    LET ids == searchsorted(bins, x, "right")
    IN  IF ids = 0 \/ ids = Len(bins) THEN NA ELSE labels[ids]

\* pd.cut(x, bins=bins, labels=labels, include_lowest=True), right=True
cut(x, bins, labels) ==
    LET ids0 == searchsorted(bins, x, "left")
        ids == IF x = bins[1] THEN 1 ELSE ids0
    IN  IF ids = 0 \/ ids = Len(bins) THEN NA ELSE labels[ids]

\* pd.cut(x, bins=5, labels=labels): equal-width bins over [mn, mx], the
\* lowest edge moved down by 0.1% of the range; when mn = mx the range is
\* widened by 0.1% on both sides and x sits in the middle.
cut_equal_width(x, mn, mx, labels) ==
    LET nb == Len(labels)
        ids == IF mn = mx
               THEN Cardinality({i \in 0..nb : 2 * i < nb})
               ELSE Cardinality({i \in 0..nb :
                                   i = 0 \/ nb * mn + i * (mx - mn) < nb * x})
    IN  labels[ids]

GenderDropsFemale(churn) == IF churn = 1 THEN "Male" ELSE NA

\* df['Churn'].map({1: 'Male', 0: 'Female'})
Gender(churn) ==
    IF churn = 1 THEN "Male" ELSE IF churn = 0 THEN "Female" ELSE NA

\* df['Predicted_Churn'].map({1: 'High Risk', 0: 'Low Risk'})
Risk_Category(pc) ==
    IF pc = 1 THEN "High Risk" ELSE IF pc = 0 THEN "Low Risk" ELSE NA

Max(S) == CHOOSE m \in S : \A x \in S : x <= m
Min(S) == CHOOSE m \in S : \A x \in S : m <= x

Failed == [ok |-> FALSE, df |-> <<>>]

\* df.dropna(subset=['Recency'])
dropna_Recency(t) == SelectSeq(t, LAMBDA r : ~r.Recency.nan)

KeepsUnassigned(t) == t

\* df.dropna(subset=['Age_Group'])
dropna_Age_Group(t) == SelectSeq(t, LAMBDA r : r.Age_Group # NA)

load_data(raw) ==
    LET coerced == [i \in 1..Len(raw) |->
                      [CustomerID |-> raw[i].CustomerID,
                       Country |-> raw[i].Country,
                       TotalPrice |-> to_numeric(raw[i].TotalPrice),
                       Recency |-> to_numeric(raw[i].Recency),
                       Churn |-> raw[i].Churn,
                       Predicted_Churn |-> raw[i].Predicted_Churn]]
        idsOk == \A i \in 1..Len(raw) : raw[i].CustomerID.kind = "num"
        kept == dropna_Recency(coerced)
        recencies == {kept[i].Recency.n :
                        i \in {j \in 1..Len(kept) : ~kept[j].Recency.nan}}
    IN  IF ~idsOk \/ recencies = {} THEN Failed
        ELSE
        LET max_recency == Max(recencies)
            bins == age_bins(max_recency)
        IN  IF ~BinsIncrease(bins) THEN Failed
            ELSE
            LET aged == [i \in 1..Len(kept) |->
                           [CustomerID |-> kept[i].CustomerID.v,
                            Country |-> kept[i].Country,
                            TotalPrice |-> kept[i].TotalPrice,
                            Recency |-> kept[i].Recency,
                            Churn |-> kept[i].Churn,
                            Predicted_Churn |-> kept[i].Predicted_Churn,
                            Gender |-> Gender(kept[i].Churn),
                            Age_Group |->
                                IF kept[i].Recency.nan THEN NA
                                ELSE cut(kept[i].Recency.n, bins, age_labels)]]
                binned == dropna_Age_Group(aged)
                prices == {binned[i].TotalPrice.n :
                             i \in {j \in 1..Len(binned) : ~binned[j].TotalPrice.nan}}
            IN  IF binned = <<>> \/ prices = {} THEN Failed
                ELSE
                [ok |-> TRUE,
                 df |-> [i \in 1..Len(binned) |->
                     [CustomerID |-> binned[i].CustomerID,
                      Country |-> binned[i].Country,
                      TotalPrice |-> binned[i].TotalPrice,
                      Recency |-> binned[i].Recency,
                      Churn |-> binned[i].Churn,
                      Predicted_Churn |-> binned[i].Predicted_Churn,
                      Gender |-> binned[i].Gender,
                      Age_Group |-> binned[i].Age_Group,
                      Income_Group |->
                          IF binned[i].TotalPrice.nan THEN NA
                          ELSE cut_equal_width(binned[i].TotalPrice.n,
                                               Min(prices), Max(prices), income_labels),
                      Risk_Category |-> Risk_Category(binned[i].Predicted_Churn)]]]

(***************************** the script **********************************)
Range(s) == {s[i] : i \in 1..Len(s)}

\* len(df)
total_clients(t) == Len(t)
\* df[df['Gender'] == 'Male'].shape[0]
male_count(t) == Len(SelectSeq(t, LAMBDA r : r.Gender = "Male"))
\* df[df['Gender'] == 'Female'].shape[0]
female_count(t) == Len(SelectSeq(t, LAMBDA r : r.Gender = "Female"))
\* df['TotalPrice'].mean()
avg_income(t) == mean([i \in 1..Len(t) |-> t[i].TotalPrice])
\* df['Recency'].mean()
avg_recency(t) == mean([i \in 1..Len(t) |-> t[i].Recency])
\* df['Predicted_Churn'].sum()
predicted_high_risk(t) == SumSeq([i \in 1..Len(t) |-> t[i].Predicted_Churn])

\* (predicted_high_risk / total_clients) * 100
predicted_churn_rate(t) == Times(Div(predicted_high_risk(t), total_clients(t)), 100)

\* pd.crosstab(df['Age_Group'], df['Gender']): the rows with both values
\* present, counted per pair; the columns are the genders that occur, sorted.
crosstab(t) ==
    LET counted == SelectSeq(t, LAMBDA r : r.Age_Group # NA /\ r.Gender # NA)
        present == {counted[i].Gender : i \in 1..Len(counted)}
    IN  [columns |-> SelectSeq(<<"Female", "Male">>, LAMBDA g : g \in present),
         count |-> [a \in Range(age_labels), g \in present |->
                      Len(SelectSeq(counted, LAMBDA r : r.Age_Group = a /\ r.Gender = g))]]

\* age_gender[cols]
take(ct, cols) ==
    [columns |-> cols,
     count |-> [a \in Range(age_labels), g \in Range(cols) |-> ct.count[a, g]]]

select_first_present(ct) ==
    IF "Female" \in Range(ct.columns) THEN take(ct, <<"Female">>)
    ELSE IF "Male" \in Range(ct.columns) THEN take(ct, <<"Male">>)
    ELSE ct

\* lines 118-123: Female before Male, whichever are present
select_columns(ct) ==
    IF "Female" \in Range(ct.columns) /\ "Male" \in Range(ct.columns)
    THEN take(ct, <<"Female", "Male">>)
    ELSE IF "Female" \in Range(ct.columns) THEN take(ct, <<"Female">>)
    ELSE IF "Male" \in Range(ct.columns) THEN take(ct, <<"Male">>)
    ELSE ct

group_sum(t, key, g) ==
    LET rows == SelectSeq(t, LAMBDA r : r[key] = g)
    IN  IF rows = <<>> THEN NaN
        ELSE Num(SumSeq([i \in 1..Len(rows) |-> rows[i].Predicted_Churn]))

\* the mean of Predicted_Churn within one group (NaN for a group without rows)
group_mean(t, key, g) ==
    LET rows == SelectSeq(t, LAMBDA r : r[key] = g)
    IN  mean([i \in 1..Len(rows) |-> Num(rows[i].Predicted_Churn)])

\* df.groupby(key)['Predicted_Churn'].mean() over a categorical key: one entry
\* per category in category order; with observed=False (the default before
\* pandas 3) categories without rows are kept, with NaN; rows whose key is
\* missing belong to no group.
groupby_mean(t, key, labels, obs) ==
    LET shown == SelectSeq(labels,
                   LAMBDA g : ~obs \/ \E i \in 1..Len(t) : t[i][key] = g)
    IN  [i \in 1..Len(shown) |->
           [group |-> shown[i], value |-> group_mean(t, key, shown[i])]]

\* series * 100
times100(s) == [i \in 1..Len(s) |-> [group |-> s[i].group, value |-> Times(s[i].value, 100)]]

idxmax_last(s) ==
    LET valid == {i \in 1..Len(s) : ~s[i].value.nan}
    IN  IF valid = {} THEN NA
        ELSE s[CHOOSE i \in valid : \A j \in valid :
                   /\ ~Less(s[i].value, s[j].value)
                   /\ (j > i => Less(s[j].value, s[i].value))].group

\* Series.idxmax(): NaN skipped, the label of the first maximum
idxmax(s) ==
    LET valid == {i \in 1..Len(s) : ~s[i].value.nan}
    IN  IF valid = {} THEN NA
        ELSE s[CHOOSE i \in valid : \A j \in valid :
                   /\ ~Less(s[i].value, s[j].value)
                   /\ (j < i => Less(s[j].value, s[i].value))].group

NoPage == [rendered |-> FALSE]

\* lines 54-60, 116-123, 152, 162, 182, 205: the globals one run computes
Render(t, obs) ==
    LET churn_by_age == times100(groupby_mean(t, "Age_Group", age_labels, obs))
    IN  [rendered |-> TRUE,
         total_clients |-> total_clients(t),
         male_count |-> male_count(t),
         female_count |-> female_count(t),
         avg_income |-> avg_income(t),
         avg_recency |-> avg_recency(t),
         predicted_high_risk |-> predicted_high_risk(t),
         predicted_churn_rate |-> predicted_churn_rate(t),
         age_gender |-> select_columns(crosstab(t)),
         churn_by_age |-> churn_by_age,
         churn_by_income |->
             times100(groupby_mean(t, "Income_Group", income_labels, obs)),
         first_highest_age_risk |-> idxmax(churn_by_age),
         highest_age_risk |->
             idxmax(groupby_mean(t, "Age_Group", age_labels, obs))]

(***************************** the cache ***********************************)
NoCache == [hit |-> FALSE, ver |-> 0, value |-> <<>>]

lookup_by_source(c, src) == c.hit /\ c.ver = src.ver

\* @st.cache_data on a function without arguments: the key is the function
\* alone, so the one entry, once stored, answers every later call.
lookup(c, src) == c.hit

\* df = load_data() and the rest of the script, as one run
Rerun ==
    /\ lookup(cache, source) \/ loads < MaxLoads
    /\ LET hit == lookup(cache, source)
           res == IF hit THEN [ok |-> TRUE, df |-> cache.value]
                  ELSE load_data(source.rows)
       IN  /\ cache' = IF ~hit /\ res.ok
                       THEN [hit |-> TRUE, ver |-> source.ver, value |-> res.df]
                       ELSE cache
           /\ loads' = IF hit THEN loads ELSE loads + 1
           /\ status' = IF res.ok THEN "ok" ELSE "error"
           /\ df' = res.df
           /\ page' = IF res.ok THEN Render(res.df, observed) ELSE NoPage
    /\ seen' = source.ver
    /\ UNCHANGED <<source, observed, sel, view, summary>>

\* churn_results.csv is rewritten
ChangeSource(inputs) ==
    /\ source.ver < MaxVersion
    /\ \E rows \in inputs \ {source.rows} :
           source' = [ver |-> source.ver + 1, rows |-> rows]
    /\ UNCHANGED <<cache, df, status, page, loads, seen, observed, sel, view, summary>>

(***************************** the filter **********************************)
NoSel == [Country |-> {}, Age_Group |-> {}, Risk_Category |-> {}]
NoSummary == [computed |-> FALSE]

\* the facet sets the presentation can supply: subsets of the observed values
Facets(t) ==
    [Country : SUBSET {t[i].Country : i \in 1..Len(t)},
     Age_Group : SUBSET {t[i].Age_Group : i \in 1..Len(t)},
     Risk_Category : SUBSET {t[i].Risk_Category : i \in 1..Len(t)}]

\* set membership per facet, AND across the three facets
apply_filter(t, f) ==
    SelectSeq(t, LAMBDA r : /\ r.Country \in f.Country
                        /\ r.Age_Group \in f.Age_Group
                        /\ r.Risk_Category \in f.Risk_Category)

\* the metrics of lines 54-60 over a table
scalarSummary(t) ==
    [computed |-> TRUE,
     count |-> total_clients(t),
     maleCount |-> male_count(t),
     femaleCount |-> female_count(t),
     avgTotalPrice |-> avg_income(t),
     avgRecency |-> avg_recency(t),
     predictedHighRiskCount |-> predicted_high_risk(t),
     predictedChurnRatePct |-> predicted_churn_rate(t)]

\* a filter change: the Aggregator recomputes over the cached table
ApplyFilter ==
    /\ status = "ok"
    /\ \E f \in Facets(df) :
           /\ sel' = f
           /\ view' = apply_filter(df, f)
           /\ summary' = scalarSummary(apply_filter(df, f))
    /\ UNCHANGED <<source, cache, df, status, page, loads, seen, observed>>

(***************************** inputs **************************************)
TablesOver(rows, n) == UNION {[1..k -> rows] : k \in 0..n}

Flag == {0, 1}

\* loader inputs: every kind of Recency and CustomerID cell
LoadRows ==
    {RawRow(id, "UK", RawNum(10), rec, 0, 0) :
        id \in {RawNum(1), Blank},
        rec \in {Blank, Text, RawNum(0 - 1), RawNum(0), RawNum(60),
                 RawNum(299), RawNum(300), RawNum(301)}}

\* bucketing inputs: every whole Recency up to MaxRecency
BinRows == {RawRow(RawNum(1), "UK", RawNum(10), RawNum(rec), 0, 0) : rec \in 0..MaxRecency}

GenderRows ==
    {RawRow(RawNum(1), "UK", RawNum(10), RawNum(rec), churn, 0) :
        rec \in {60, 61, 300, 301}, churn \in Flag}

\* group-rate inputs: two age groups, two income groups and a missing price
RateRows ==
    {RawRow(RawNum(1), "UK", price, RawNum(rec), 0, pc) :
        price \in {Blank, RawNum(0), RawNum(10)}, rec \in {60, 301}, pc \in Flag}

\* top-group inputs: three age groups
TopRows ==
    {RawRow(RawNum(1), "UK", RawNum(10), RawNum(rec), 0, pc) :
        rec \in {60, 300, 301}, pc \in Flag}

FilterRows ==
    {RawRow(RawNum(1), country, RawNum(10), RawNum(rec), churn, pc) :
        country \in {"UK", "FR"}, rec \in {60, 301}, churn \in Flag, pc \in Flag}

SessionRows ==
    {RawRow(RawNum(1), "UK", RawNum(10), RawNum(rec), 0, pc) :
        rec \in {60, 300, 301}, pc \in Flag}

InitWith(inputs) ==
    /\ source \in [ver : {0}, rows : inputs]
    /\ cache = NoCache
    /\ df = <<>>
    /\ status = "init"
    /\ page = NoPage
    /\ loads = 0
    /\ seen = 0
    /\ observed \in BOOLEAN
    /\ sel = NoSel
    /\ view = <<>>
    /\ summary = NoSummary

(***************************** specifications ******************************)
\* a session: reruns and rewrites of the source file
Init == InitWith(TablesOver(SessionRows, MaxSessionRows))
Next == Rerun \/ ChangeSource(TablesOver(SessionRows, MaxSessionRows))
Spec == Init /\ [][Next]_vars

\* one run over each input table
InitLoad == InitWith(TablesOver(LoadRows, MaxRows))
SpecLoad == InitLoad /\ [][Rerun]_vars

\* a probe row and a companion row
InitBins == InitWith({<<a, b>> : a \in BinRows, b \in BinRows})
SpecBins == InitBins /\ [][Rerun]_vars

InitGender == InitWith(TablesOver(GenderRows, MaxRows))
SpecGender == InitGender /\ [][Rerun]_vars

InitRates == InitWith(TablesOver(RateRows, MaxRows))
SpecRates == InitRates /\ [][Rerun]_vars

InitTop == InitWith(TablesOver(TopRows, MaxRows))
SpecTop == InitTop /\ [][Rerun]_vars

\* a run, then filter changes
InitFilter == InitWith(TablesOver(FilterRows, MaxFilterRows))
NextFilter == Rerun \/ ApplyFilter
SpecFilter == InitFilter /\ [][NextFilter]_vars

(***************************** properties **********************************)
Rows(t) == 1..Len(t)
Members(t, key, g) == {i \in Rows(t) : t[i][key] = g}
HighRisk(t, key, g) == {i \in Members(t, key, g) : t[i].Predicted_Churn = 1}

\* C1: after a run the male and female counts add up to the row count, the
\* males being exactly the rows with Churn = 1 and the females exactly the
\* rows with Churn = 0.
C1_GenderPartition ==
    status = "ok" =>
        /\ page.male_count + page.female_count = page.total_clients
        /\ page.male_count = Cardinality({i \in Rows(df) : df[i].Churn = 1})
        /\ page.female_count = Cardinality({i \in Rows(df) : df[i].Churn = 0})
        /\ page.total_clients = Len(df)

C1_Witness ==
    status = "ok" /\ page.male_count >= 1 /\ page.female_count >= 2

CellSum(ct) ==
    SumSeq([a \in 1..Len(age_labels) |->
              SumSeq([g \in 1..Len(ct.columns) |->
                        ct.count[age_labels[a], ct.columns[g]]])])

\* C2: the cells of the Age_Group x Gender cross-tabulation, after the
\* Female/Male column selection, add up to the row count of the table, and
\* each cell holds the number of rows of its age group and gender.
C2_CrossTabTotal ==
    status = "ok" =>
        /\ CellSum(page.age_gender) = Len(df)
        /\ \A a \in Range(age_labels) : \A g \in Range(page.age_gender.columns) :
               page.age_gender.count[a, g] =
                   Cardinality({i \in Rows(df) : df[i].Age_Group = a /\ df[i].Gender = g})

C2_Witness ==
    /\ status = "ok"
    /\ page.age_gender.columns = <<"Female", "Male">>
    /\ page.age_gender.count["18-30", "Female"] = 1
    /\ page.age_gender.count[">71", "Male"] = 2

edges == <<0, 60, 120, 180, 240, 300>>

\* the bucket that starts at or before r: edges left-inclusive
LeftInclusive(r) == age_labels[Max({k \in 1..Len(edges) : edges[k] <= r})]

\* the bucket that ends at or after r: edges right-inclusive, 0 in the first
RightInclusive(r) ==
    IF r = 0 THEN age_labels[1]
    ELSE age_labels[Max({k \in 1..Len(edges) : edges[k] < r})]

\* C4 as stated: every row is labelled with the bucket whose left edge is at
\* or below its Recency, so a row on an interior edge e gets the bucket that
\* starts at e.
C4_LeftInclusive ==
    status = "ok" =>
        \A i \in Rows(df) : df[i].Age_Group = LeftInclusive(df[i].Recency.n)

\* C4 amended: every row is labelled with the bucket (lo, hi] holding its
\* Recency (0 in the first one): a row on an interior edge e gets the bucket
\* that ends at e (60 -> 18-30, 300 -> 61-70), and 30, 90, 150, 310 map to
\* 18-30, 31-40, 41-50, >71.
C4_RightInclusive ==
    status = "ok" =>
        \A i \in Rows(df) :
            LET r == df[i].Recency.n
            IN  /\ df[i].Age_Group = RightInclusive(r)
                /\ r = 30 => df[i].Age_Group = "18-30"
                /\ r = 60 => df[i].Age_Group = "18-30"
                /\ r = 90 => df[i].Age_Group = "31-40"
                /\ r = 150 => df[i].Age_Group = "41-50"
                /\ r = 300 => df[i].Age_Group = "61-70"
                /\ r = 310 => df[i].Age_Group = ">71"

C4_Witness ==
    /\ status = "ok"
    /\ \E i \in Rows(df) : df[i].Recency.n = 60 /\ df[i].Age_Group = "18-30"
    /\ \E i \in Rows(df) : df[i].Recency.n = 310 /\ df[i].Age_Group = ">71"

InRange(rows) ==
    SelectSeq(rows, LAMBDA r : r.Recency.kind = "num" /\ r.Recency.v >= 0)
Loadable(rows) ==
    /\ \A i \in Rows(rows) : rows[i].CustomerID.kind = "num"
    /\ \E i \in Rows(rows) : rows[i].TotalPrice.kind = "num" /\ rows[i].Recency.kind = "num"
                              /\ rows[i].Recency.v >= 0

\* C5 as stated: when the largest Recency left after the drop is at most 300
\* the load succeeds, and every row gets the bucket of the fixed edges.
C5_SmallMaxStillLoads ==
    (/\ status # "init"
     /\ Loadable(source.rows)
     /\ \A i \in Rows(source.rows) :
            source.rows[i].Recency.kind = "num" => source.rows[i].Recency.v <= 300)
    => /\ status = "ok"
       /\ Len(df) = Len(InRange(source.rows))
       /\ \A i \in Rows(df) : df[i].Age_Group = RightInclusive(df[i].Recency.n)

\* C10: the loaded table holds exactly the raw rows whose Recency is numeric
\* and not negative, in order, each with a numeric Recency and an Age_Group.
C10_OnlyBucketedRows ==
    status = "ok" =>
        /\ \A i \in Rows(df) :
               ~df[i].Recency.nan /\ df[i].Recency.n >= 0 /\ df[i].Age_Group # NA
        /\ [i \in Rows(df) |-> df[i].Recency.n]
               = [i \in Rows(InRange(source.rows)) |-> InRange(source.rows)[i].Recency.v]

C10_Witness ==
    /\ status = "ok"
    /\ Len(df) = 1
    /\ \E i \in Rows(source.rows) : source.rows[i].Recency.kind # "num"
    /\ \E i \in Rows(source.rows) :
           source.rows[i].Recency.kind = "num" /\ source.rows[i].Recency.v < 0

\* an entry of a group-rate series is the exact rate of its group: a number
\* in [0,100], 100 x the share of Predicted_Churn = 1 among the group's rows
ExactRate(e, t, key) ==
    /\ ~e.value.nan
    /\ 0 <= e.value.n /\ e.value.n <= 100 * e.value.d
    /\ e.value.n * Cardinality(Members(t, key, e.group))
           = 100 * Cardinality(HighRisk(t, key, e.group)) * e.value.d

Series(s, t, key, labels) ==
    /\ \A i \in Rows(s) : s[i].group \in Range(labels)
    /\ \A i, j \in Rows(s) : i < j =>
           \E a, b \in Rows(labels) : a < b /\ labels[a] = s[i].group /\ labels[b] = s[j].group
    /\ \A g \in Range(labels) :
           Members(t, key, g) # {} => \E i \in Rows(s) : s[i].group = g

RateLess(t, g, h) ==
    Cardinality(HighRisk(t, "Age_Group", g)) * Cardinality(Members(t, "Age_Group", h))
        < Cardinality(HighRisk(t, "Age_Group", h)) * Cardinality(Members(t, "Age_Group", g))

TopGroup(t, best) ==
    \E b \in Rows(age_labels) :
        /\ age_labels[b] = best
        /\ Members(t, "Age_Group", best) # {}
        /\ \A a \in Rows(age_labels) :
               Members(t, "Age_Group", age_labels[a]) # {} =>
                   /\ ~RateLess(t, best, age_labels[a])
                   /\ (a < b => RateLess(t, age_labels[a], best))

\* C9: the reported highest-risk age group has rows, no group with rows has a
\* higher rate, and every group with rows that comes before it in the order
\* 18-30, ..., >71 has a strictly lower rate (both computations of it).
C9_TopRiskFirstMax ==
    status = "ok" =>
        /\ TopGroup(df, page.highest_age_risk)
        /\ TopGroup(df, page.first_highest_age_risk)

C9_Witness ==
    /\ status = "ok"
    /\ page.highest_age_risk = "61-70"
    /\ Members(df, "Age_Group", "18-30") # {}
    /\ Members(df, "Age_Group", ">71") # {}
    /\ ~RateLess(df, ">71", "61-70") /\ ~RateLess(df, "61-70", ">71")
    /\ RateLess(df, "18-30", "61-70")

IsZero(x) == ~x.nan /\ x.n = 0

\* C3 as stated: the churn rate of a summary is 100 x high-risk count / count
\* when count > 0, and 0 when count = 0.
C3_RateDefined ==
    summary.computed =>
        /\ summary.count > 0 =>
               /\ ~summary.predictedChurnRatePct.nan
               /\ summary.predictedChurnRatePct.n * summary.count
                      = 100 * summary.predictedHighRiskCount * summary.predictedChurnRatePct.d
        /\ summary.count = 0 => IsZero(summary.predictedChurnRatePct)

\* C8 as stated: with an empty set for one of the three facets the summary
\* has count 0 and its rate and averages are zero.
C8_EmptyFacetAllZero ==
    (summary.computed /\ (sel.Country = {} \/ sel.Age_Group = {} \/ sel.Risk_Category = {}))
    => /\ summary.count = 0
       /\ IsZero(summary.predictedChurnRatePct)
       /\ IsZero(summary.avgTotalPrice)
       /\ IsZero(summary.avgRecency)

\* C7 as stated: once a run has started on the current source version, the
\* table in use is the one the loader yields for the current source.
C7_TableReflectsSource ==
    (status = "ok" /\ seen = source.ver) => df = load_data(source.rows).df

\* C7 amended: the loader body runs until it first succeeds and never again:
\* a step that finds the memo filled leaves the memo and the count of loads
\* as they are, whatever the source, a step that fills it stores what the
\* loader yields for the source of that moment, and a successful run uses the
\* memoized table.
C7_LoadedOnce ==
    [][/\ cache.hit => (cache' = cache /\ loads' = loads)
       /\ (~cache.hit /\ cache'.hit) =>
              /\ cache'.value = load_data(source.rows).df
              /\ cache'.ver = source.ver
              /\ loads' = loads + 1
       /\ (status' = "ok" /\ seen' = source'.ver /\ cache'.hit) => df' = cache'.value]_vars

C7_Witness ==
    /\ status = "ok"
    /\ cache.hit
    /\ cache.ver < source.ver
    /\ seen = source.ver
    /\ df = cache.value
    /\ df # load_data(source.rows).df

====
